---- MODULE Spec2Model ----
(***************************************************************************)
(* A model of the WordPress dependencies report action (src/index.js).     *)
(*                                                                         *)
(* One run loads two manifests, walks the artifacts of the new manifest,   *)
(* measures each artifact on both sides, builds the report rows and then   *)
(* creates or updates one comment on the pull request thread.              *)
(*                                                                         *)
(* Text is modelled as TLA+ strings, so startsWith, endsWith, the suffix   *)
(* replacement and the rendering of rows are computed on characters.  The  *)
(* two arrow emoji and the backtick cannot be written in a TLA+ string and *)
(* are stood for by UP, DOWN and TICK.                                     *)
(***************************************************************************)
EXTENDS Integers, Sequences, FiniteSets, TLC

\* ---------------------------------------------------------------- bounds

\* Largest file size, in bytes.
MaxSize == 1
\* Longest dependency list of a manifest entry.
MaxDeps == 1
\* Most comments on the thread before the first run.
MaxComments == 2
\* Most runs executed one after another (SpecRuns).
MaxRuns == 2

\* ------------------------------------------------------------- constants

HEADING == "# WordPress Dependencies Report\n\n"

UP == "(up)"
DOWN == "(down)"
TICK == "'"

STYLE_JS == "-style.js"
STYLE_CSS == "-style.css"

NO_CHANGES == "No changes detected in the current commit. But the comment was left so it is possible to check for the edit history."

TABLE_HEAD == "| Script Handle | Added Dependencies |  Removed Dependencies | Total Size | Size Diff |\n| ------------- | ------- |  ------- | ------- | ------- | \n"

\* The inputs of a run that only appear in the prose of the comment.
commit == "<sha>"
oldAssetsBranch == "<old-branch>"
oldAssetsFolder == "old"
newAssetsFolder == "new"

\* ------------------------------------------------------ string functions

\* String.prototype.startsWith
startsWith(s, prefix) ==
    /\ Len(s) >= Len(prefix)
    /\ SubSeq(s, 1, Len(prefix)) = prefix

\* String.prototype.endsWith
endsWith(s, suffix) ==
    /\ Len(s) >= Len(suffix)
    /\ SubSeq(s, Len(s) - Len(suffix) + 1, Len(s)) = suffix

\* jsPath.replace(/-style.js$/, "-style.css"): the pattern matches, at the
\* end of the string only, "-style", any one character, "js".
replaceStyleSuffix(p) ==
    LET n == Len(p) IN
    IF /\ n >= 9
       /\ SubSeq(p, n - 8, n - 3) = "-style"
       /\ SubSeq(p, n - 2, n - 2) # "\n"
       /\ SubSeq(p, n - 1, n) = "js"
    THEN SubSeq(p, 1, n - 9) \o STYLE_CSS
    ELSE p

\* path.join(folder, name) for a folder without a trailing separator.
pathJoin(folder, name) == folder \o "/" \o name

\* Array.prototype.join
RECURSIVE join(_, _)
join(list, sep) ==
    IF list = <<>> THEN ""
    ELSE IF Len(list) = 1 THEN list[1]
    ELSE list[1] \o sep \o join(Tail(list), sep)

\* Array.prototype.includes
includes(list, e) == \E i \in 1..Len(list) : list[i] = e

\* dependencies.filter(d => !other.includes(d))
RECURSIVE filterNotIn(_, _)
filterNotIn(list, other) ==
    IF list = <<>> THEN <<>>
    ELSE IF includes(other, list[1])
         THEN filterNotIn(Tail(list), other)
         ELSE <<list[1]>> \o filterNotIn(Tail(list), other)

\* ------------------------------------------------------- size rendering

\* prettyBytes(n, {signed}) for |n| < 1000: the number and the unit B, with
\* a sign when signed (a space stands in for the sign of a signed zero).
prettyBytes(n, signed) ==
    LET prefix == IF n < 0 THEN "-"
                  ELSE IF ~signed THEN ""
                  ELSE IF n = 0 THEN " " ELSE "+"
        abs == IF n < 0 THEN -n ELSE n
    IN prefix \o ToString(abs) \o " B"

\* A number of hundredths printed as JavaScript prints the number h / 100.
formatHundredths(h) ==
    LET whole == ToString(h \div 100)
        frac == h % 100
    IN IF frac = 0 THEN whole
       ELSE IF frac % 10 = 0 THEN whole \o "." \o ToString(frac \div 10)
       ELSE IF frac < 10 THEN whole \o ".0" \o ToString(frac)
       ELSE whole \o "." \o ToString(frac)

\* ceil(a / b) for a >= 0, b > 0
ceilDiv(a, b) == (a + b - 1) \div b

\* The guard of the first branch of computePercentageDiff.
isBaselineZero(oldSize, newSize) == oldSize = 0

\* computePercentageDiff.  value = (new - old) / old * 100 and formatted =
\* sign(value) * ceil(|value| * 100) / 100, computed here on hundredths.
computePercentageDiff(oldSize, newSize) ==
    IF isBaselineZero(oldSize, newSize) THEN "+100% " \o UP
    ELSE LET d == newSize - oldSize
             mag == ceilDiv((IF d < 0 THEN -d ELSE d) * 10000, oldSize)
         IN IF d > 0 THEN "+" \o formatHundredths(mag) \o "% " \o UP
            ELSE IF d = 0 THEN formatHundredths(mag) \o "%"
            ELSE "-" \o formatHundredths(mag) \o "% " \o DOWN

computeSizeDiff(oldSize, newSize) ==
    prettyBytes(newSize - oldSize, TRUE) \o " ( "
        \o computePercentageDiff(oldSize, newSize) \o " )"

\* ------------------------------------------------------------ file system

\* A file of the assets folders: absent, or present with a content length.
AbsentFile == [exists |-> FALSE, length |-> 0]
FileStates == {AbsentFile} \cup {[exists |-> TRUE, length |-> n] : n \in 0..MaxSize}

\* readFile(filePath, ''): the length of what it returns, the default ''
\* when the read throws.
readFileLength(fs, filePath) ==
    IF fs[filePath].exists THEN fs[filePath].length ELSE 0

\* A slip in scriptIsEmpty: a script that does not exist is not empty.
scriptExistsAndIsEmpty(fs, jsPath) ==
    fs[jsPath].exists /\ fs[jsPath].length = 0

\* The test of the script's content in determineAssetPath.
scriptIsEmpty(fs, jsPath) == readFileLength(fs, jsPath) = 0

\* determineAssetPath(assetsFolder, jsAsset)
determineAssetPath(fs, assetsFolder, jsAsset) ==
    LET jsPath == pathJoin(assetsFolder, jsAsset)
        cssPath == replaceStyleSuffix(jsPath)
    IN IF /\ endsWith(jsAsset, STYLE_JS)
          /\ scriptIsEmpty(fs, jsPath)
          /\ readFileLength(fs, cssPath) > 0
       THEN cssPath
       ELSE jsPath

\* The size the measurer reports for a path: the file's length, 0 for a
\* path that does not exist.
fileSize(fs, filePath) ==
    IF fs[filePath].exists THEN fs[filePath].length ELSE 0

\* The files one artifact can make the run read, in both folders: the
\* script and the file the suffix replacement names.
ArtifactPaths(asset) ==
    UNION {{pathJoin(folder, asset), replaceStyleSuffix(pathJoin(folder, asset))} :
           folder \in {oldAssetsFolder, newAssetsFolder}}

\* -------------------------------------------------------------- manifests

\* A JSON value as the run uses it: whether it is truthy, and its entries
\* in Object.entries order (name, dependencies).
FALSE_VALUE == [truthy |-> FALSE, entries |-> <<>>]
EMPTY_OBJECT == [truthy |-> TRUE, entries |-> <<>>]

\* The manifest file on disk: absent, not JSON, or a JSON object.
AbsentManifest == [kind |-> "absent", value |-> FALSE_VALUE]
GarbageManifest == [kind |-> "garbage", value |-> FALSE_VALUE]

\* A slip in readJSON: an empty object whatever the default.
readJSONEmptyOnError(file, defaultValue) ==
    IF file.kind = "json" THEN file.value ELSE EMPTY_OBJECT

\* readJSON(filePath, defaultValue): readFile gives '' for an absent file
\* and JSON.parse throws on '' and on text that is not JSON.
readJSON(file, defaultValue) ==
    IF file.kind = "json" THEN file.value ELSE defaultValue

\* oldAssets[asset]
RECURSIVE lookup(_, _)
lookup(entries, asset) ==
    IF entries = <<>> THEN [found |-> FALSE, dependencies |-> <<>>]
    ELSE IF entries[1].name = asset
         THEN [found |-> TRUE, dependencies |-> entries[1].dependencies]
         ELSE lookup(Tail(entries), asset)

\* oldAssets[asset] ? ... : ...  (the test of lines 157 and 180)
hasOldEntry(assets, asset) == lookup(assets.entries, asset).found

\* oldAssets[asset] ? oldAssets[asset].dependencies : []
oldDependenciesOf(assets, asset) ==
    IF hasOldEntry(assets, asset)
    THEN lookup(assets.entries, asset).dependencies
    ELSE <<>>

Names == {"a.js", "b-style.js"}
Deps == {"x", "y"}

\* Dependency lists without repeated ids, at most MaxDeps long, the ids in
\* alphabetical order.
RECURSIVE ListsUpTo(_)
ListsUpTo(n) ==
    IF n = 0 THEN {<<>>}
    ELSE ListsUpTo(n - 1) \cup
         {Append(l, d) : l \in {m \in ListsUpTo(n - 1) : Len(m) = n - 1},
                         d \in Deps}
DepLists == {l \in ListsUpTo(MaxDeps) :
             \A i, j \in 1..Len(l) : i < j => l[i] = "x" /\ l[j] = "y"}

Entry(n, d) == [name |-> n, dependencies |-> d]

\* JSON objects with at most two artifacts, in every key order.
ManifestObjects ==
    {<<>>}
    \cup {<<Entry(n, d)>> : n \in Names, d \in DepLists}
    \cup {<<Entry(p[1], d1), Entry(p[2], d2)>> :
          p \in {q \in Names \X Names : q[1] # q[2]},
          d1 \in DepLists, d2 \in DepLists}

\* The old manifest is only ever looked up by name: one key order is enough.
OldManifestObjects ==
    {<<>>}
    \cup {<<Entry(n, d)>> : n \in Names, d \in DepLists}
    \cup {<<Entry("a.js", d1), Entry("b-style.js", d2)>> :
          d1 \in DepLists, d2 \in DepLists}

JsonFile(obj) == [kind |-> "json", value |-> [truthy |-> TRUE, entries |-> obj]]

NewManifestFiles ==
    {AbsentManifest, GarbageManifest} \cup {JsonFile(o) : o \in ManifestObjects}
OldManifestFiles ==
    {AbsentManifest, GarbageManifest} \cup {JsonFile(o) : o \in OldManifestObjects}

\* ------------------------------------------------------------------ state

VARIABLES
    pc,             \* where the run is: start, loop, measuring, create, update, done, failed
    run,            \* the number of the run, from 1
    manifestFiles,  \* whether each manifest file held JSON when the run read it
    oldAssets,      \* readJSON of the old manifest
    newAssets,      \* readJSON of the new manifest
    idx,            \* the position of the loop in Object.entries(newAssets)
    added,          \* the added dependencies of the artifact in hand
    removed,        \* the removed dependencies of the artifact in hand
    sizesPromises,  \* the two promises of the artifact in hand
    settleOrder,    \* the positions of the latest sizesPromises in the order they settled
    reportContent,  \* the rows so far
    processed,      \* one record per artifact the loop has finished, in order
    onlyUpdate,     \* the flag handed to postOrEditComment
    content,        \* the content handed to postOrEditComment
    commentList,    \* what the listing of the thread returned
    previousComment,\* the id fetchPreviousComment returned, 0 for null
    thread,         \* the comments of the pull request, in listing order
    calls,          \* the calls this run made to the comment backend
    failed,         \* the message given to setFailed, "" when it was not called
    resolver        \* one call of determineAssetPath on its own (SpecPath)

vars == <<pc, run, manifestFiles, oldAssets, newAssets, idx, added, removed,
          sizesPromises, settleOrder, reportContent, processed, onlyUpdate,
          content, commentList, previousComment, thread, calls, failed, resolver>>

diffVars == <<added, removed, sizesPromises, settleOrder, reportContent, processed>>
publishVars == <<onlyUpdate, content, commentList, previousComment, thread, calls>>
loadVars == <<manifestFiles, oldAssets, newAssets>>

\* ---------------------------------------------------------------- thread

REPORT_BODY == HEADING \o "an earlier report"
OTHER_BODY == "Seen the " \o HEADING
Bodies == {REPORT_BODY, OTHER_BODY}

Comment(i, b) == [id |-> i, body |-> b]

\* The threads of at most n comments.
ThreadsUpTo(n) ==
    UNION {{[i \in 1..k |-> Comment(i, f[i])] : f \in [1..k -> Bodies]} :
           k \in 0..n}

isReport(comment) == startsWith(comment.body, HEADING)

\* A slip in findReport: the last match instead of the first.
findLastReport(comments) ==
    IF \E i \in 1..Len(comments) : isReport(comments[i])
    THEN CHOOSE i \in 1..Len(comments) :
            /\ isReport(comments[i])
            /\ \A j \in (i + 1)..Len(comments) : ~isReport(comments[j])
    ELSE 0

\* commentList.find(comment => comment.body.startsWith(HEADING)): the
\* position of the first match, 0 when there is none.
findReport(comments) ==
    IF \E i \in 1..Len(comments) : isReport(comments[i])
    THEN CHOOSE i \in 1..Len(comments) :
            /\ isReport(comments[i])
            /\ \A j \in 1..(i - 1) : ~isReport(comments[j])
    ELSE 0

\* fetchPreviousComment: the id of the comment found, 0 for null.
fetchPreviousComment(comments) ==
    IF findReport(comments) = 0 THEN 0
    ELSE comments[findReport(comments)].id

\* The id the backend gives a new comment.
RECURSIVE maxId(_)
maxId(comments) ==
    IF comments = <<>> THEN 0
    ELSE LET m == maxId(Tail(comments))
         IN IF comments[1].id > m THEN comments[1].id ELSE m

\* A slip in commentBody: the heading of the body differs from HEADING.
commentBodyOtherHeading(text) == "# WordPress Dependency Report\n\n" \o text

\* The body of both backend calls.
commentBody(text) == HEADING \o text

\* ------------------------------------------------------------------- rows

\* added.length ? '`' + added.join('`, `') + '`' : ''
renderDeps(list) ==
    IF Len(list) # 0 THEN TICK \o join(list, TICK \o ", " \o TICK) \o TICK
    ELSE ""

\* A slip in noChanges: the removed dependencies are not looked at.
noChangesIgnoringRemoved(newSize, oldSize, addedDeps, removedDeps) ==
    /\ newSize = oldSize
    /\ Len(addedDeps) = 0

\* The test of line 198, on the two sizes and the two rendered lists.
noChanges(newSize, oldSize, addedDeps, removedDeps) ==
    /\ newSize = oldSize
    /\ Len(addedDeps) = 0
    /\ Len(removedDeps) = 0

\* The row of lines 203-205.
renderRow(asset, addedDeps, removedDeps, totalSize, sizeDiff) ==
    "| " \o TICK \o asset \o TICK \o " | " \o addedDeps \o " | " \o removedDeps
        \o " | " \o totalSize \o " | " \o sizeDiff \o " |" \o "\n"

\* The text an iteration adds to reportContent, "" when it adds nothing.
rowFor(asset, addedList, removedList, newSize, oldSize) ==
    LET addedDeps == renderDeps(addedList)
        removedDeps == renderDeps(removedList)
        sizeDiff == computeSizeDiff(oldSize, newSize)
        totalSize == prettyBytes(newSize, FALSE)
    IN IF noChanges(newSize, oldSize, addedDeps, removedDeps) THEN ""
       ELSE renderRow(asset, addedDeps, removedDeps, totalSize, sizeDiff)

\* A promise of sizeLimit on one file, and Promise.resolve([{size: 0}]).
sizeLimitPromise(fs, filePath) ==
    [kind |-> "sizeLimit", files |-> filePath, size |-> fileSize(fs, filePath),
     settled |-> FALSE]
resolvedPromise ==
    [kind |-> "resolved", files |-> "", size |-> 0, settled |-> TRUE]

\* A slip in oldSizePromise: the old side is measured whatever the manifest.
alwaysMeasured(assets, asset, fs, oldAssetPath) ==
    sizeLimitPromise(fs, oldAssetPath)

\* The second element of sizesPromises (lines 180-190).
oldSizePromise(assets, asset, fs, oldAssetPath) ==
    IF hasOldEntry(assets, asset)
    THEN sizeLimitPromise(fs, oldAssetPath)
    ELSE resolvedPromise

\* How many times the measurer was invoked for a promise.
invocations(promise) == IF promise.kind = "sizeLimit" THEN 1 ELSE 0

\* await Promise.all(sizesPromises) resumes when every promise has settled.
allSettled(promises) == \A i \in 1..Len(promises) : promises[i].settled

\* A slip in allResults: the results in the order the promises settled.
resultsInSettleOrder(promises, order) ==
    IF Len(order) = Len(promises)
    THEN [i \in 1..Len(promises) |-> promises[order[i]].size]
    ELSE [i \in 1..Len(promises) |-> promises[i].size]

\* Promise.all gives the results in the order of the promises.
allResults(promises, order) == [i \in 1..Len(promises) |-> promises[i].size]

\* reportContent.length === 0 (line 216)
isEmptyReport(text) == Len(text) = 0

reportTableOf(text) ==
    IF isEmptyReport(text) THEN NO_CHANGES ELSE TABLE_HEAD \o text

\* The content of lines 225-230.
contentOf(text) ==
    "The " \o TICK \o "github-action-wordpress-dependencies-report" \o TICK
        \o " action has detected some script changes between the commit "
        \o commit \o " and " \o oldAssetsBranch
        \o ". Please review and confirm the following are correct before merging."
        \o "\n\n" \o reportTableOf(text) \o "\n\n"
        \o "__This comment was automatically generated by the " \o TICK
        \o "github-action-wordpress-dependencies-report" \o TICK \o " action.__"

\* ------------------------------------------------------------------- init

IdleResolver == [state |-> "idle", fs |-> <<>>, assetsFolder |-> "",
                 jsAsset |-> "", assetPath |-> ""]

NoManifestFiles == [old |-> FALSE, new |-> FALSE]

InitRun ==
    /\ pc = "start"
    /\ manifestFiles = NoManifestFiles
    /\ oldAssets = EMPTY_OBJECT
    /\ newAssets = FALSE_VALUE
    /\ idx = 1
    /\ added = <<>>
    /\ removed = <<>>
    /\ sizesPromises = <<>>
    /\ settleOrder = <<>>
    /\ reportContent = ""
    /\ processed = <<>>
    /\ onlyUpdate = FALSE
    /\ content = ""
    /\ commentList = <<>>
    /\ previousComment = 0
    /\ calls = <<>>
    /\ failed = ""

\* The state before a first run on one of the given threads.
InitOn(threads) ==
    /\ InitRun
    /\ run = 1
    /\ thread \in threads
    /\ resolver = IdleResolver

\* No comment, a report, or a comment of somebody else.
Init == InitOn(ThreadsUpTo(1))

\* ------------------------------------------------------ run: the manifests

\* Lines 145-150: both manifests are read; a falsy new manifest ends the run.
LoadManifests(newFiles, oldFiles) ==
    /\ pc = "start"
    /\ \E o \in oldFiles, n \in newFiles :
        /\ manifestFiles' = [old |-> o.kind = "json", new |-> n.kind = "json"]
        /\ oldAssets' = readJSON(o, EMPTY_OBJECT)
        /\ newAssets' = readJSON(n, FALSE_VALUE)
        /\ pc' = IF ~readJSON(n, FALSE_VALUE).truthy THEN "done" ELSE "loop"
    /\ UNCHANGED <<run, idx, diffVars, publishVars, failed, resolver>>

\* ----------------------------------------------------- run: one artifact

\* Lines 154-190: the two paths, the two dependency differences and the two
\* promises of the next artifact.  fs is the state of the artifact's files.
BeginArtifact ==
    /\ pc = "loop"
    /\ idx <= Len(newAssets.entries)
    /\ LET asset == newAssets.entries[idx].name
           dependencies == newAssets.entries[idx].dependencies
           oldDependencies == oldDependenciesOf(oldAssets, asset)
       IN \E fs \in [ArtifactPaths(asset) -> FileStates] :
            LET newAssetPath == determineAssetPath(fs, newAssetsFolder, asset)
                oldAssetPath == determineAssetPath(fs, oldAssetsFolder, asset)
            IN /\ added' = filterNotIn(dependencies, oldDependencies)
               /\ removed' = filterNotIn(oldDependencies, dependencies)
               /\ sizesPromises' =
                    <<sizeLimitPromise(fs, newAssetPath),
                      oldSizePromise(oldAssets, asset, fs, oldAssetPath)>>
    /\ settleOrder' = <<>>
    /\ pc' = "measuring"
    /\ UNCHANGED <<run, loadVars, idx, reportContent, processed, publishVars,
                   failed, resolver>>

\* run() rejects: its local variables are gone and the catch of lines
\* 235-238 gives the error's message to setFailed.
Rejected(message) ==
    /\ pc' = "failed"
    /\ failed' = message
    /\ oldAssets' = EMPTY_OBJECT
    /\ newAssets' = FALSE_VALUE
    /\ idx' = 1
    /\ added' = <<>>
    /\ removed' = <<>>
    /\ sizesPromises' = <<>>
    /\ settleOrder' = <<>>
    /\ reportContent' = ""
    /\ processed' = <<>>

\* One measurement completes.
Settle ==
    /\ pc = "measuring"
    /\ \E i \in 1..Len(sizesPromises) :
        /\ ~sizesPromises[i].settled
        /\ sizesPromises' = [sizesPromises EXCEPT ![i].settled = TRUE]
        /\ settleOrder' = Append(settleOrder, i)
    /\ UNCHANGED <<pc, run, loadVars, idx, added, removed, reportContent,
                   processed, publishVars, failed, resolver>>

\* One measurement throws: Promise.all rejects, run() rejects and the catch
\* of lines 235-238 marks the run failed.
MeasureFails ==
    /\ pc = "measuring"
    /\ \E i \in 1..Len(sizesPromises) : ~sizesPromises[i].settled
    /\ Rejected("size-limit error")
    /\ UNCHANGED <<run, manifestFiles, publishVars, resolver>>

\* Lines 192-206: both sizes are in; the row is added unless nothing changed.
FinalizeRow ==
    /\ pc = "measuring"
    /\ allSettled(sizesPromises)
    /\ LET asset == newAssets.entries[idx].name
           sizes == allResults(sizesPromises, settleOrder)
           row == rowFor(asset, added, removed, sizes[1], sizes[2])
       IN /\ reportContent' = reportContent \o row
          /\ processed' = Append(processed,
                [asset |-> asset,
                 added |-> added,
                 removed |-> removed,
                 newSize |-> sizesPromises[1].size,
                 oldSize |-> sizesPromises[2].size,
                 oldMeasured |-> invocations(sizesPromises[2]),
                 settled |-> Cardinality({i \in 1..Len(sizesPromises) :
                                            sizesPromises[i].settled}),
                 sizeDiff |-> computeSizeDiff(sizes[2], sizes[1]),
                 row |-> row])
    /\ idx' = idx + 1
    /\ added' = <<>>
    /\ removed' = <<>>
    /\ sizesPromises' = <<>>
    /\ pc' = "loop"
    /\ UNCHANGED <<run, loadVars, settleOrder, publishVars, failed, resolver>>

\* --------------------------------------------------------- run: publishing

Call(op, id, body, ok) == [op |-> op, id |-> id, body |-> body, ok |-> ok]

\* The loop is over and the manifest was loaded: line 208 is reached.
LoopDone ==
    /\ pc = "loop"
    /\ idx > Len(newAssets.entries)

\* A slip in afterFetch: the flag is not looked at.
afterFetchIgnoringFlag(previous, flag) ==
    IF previous = 0 THEN "create" ELSE "update"

\* What postOrEditComment does once fetchPreviousComment has answered
\* (lines 70-95): return, create or update.
afterFetch(previous, flag) ==
    IF previous = 0
    THEN IF flag THEN "done" ELSE "create"
    ELSE "update"

\* Lines 208-232 and 68-73: the table or the placeholder, the flag, and
\* the listing of the thread's comments, which succeeds.
ListComments ==
    /\ LoopDone
    /\ onlyUpdate' = isEmptyReport(reportContent)
    /\ content' = contentOf(reportContent)
    /\ commentList' = thread
    /\ previousComment' = fetchPreviousComment(thread)
    /\ calls' = Append(calls, Call("list", 0, "", TRUE))
    /\ pc' = afterFetch(fetchPreviousComment(thread), isEmptyReport(reportContent))
    /\ settleOrder' = <<>>
    /\ UNCHANGED <<run, loadVars, idx, added, removed, sizesPromises,
                   reportContent, processed, thread, failed, resolver>>

\* The listing throws: postOrEditComment does not catch it, run() rejects
\* and lines 235-238 mark the run failed with the error's message.
ListFails ==
    /\ LoopDone
    /\ onlyUpdate' = isEmptyReport(reportContent)
    /\ content' = contentOf(reportContent)
    /\ calls' = Append(calls, Call("list", 0, "", FALSE))
    /\ Rejected("list error")
    /\ UNCHANGED <<run, manifestFiles, commentList, previousComment, thread, resolver>>

\* Lines 74-80: createComment succeeds.
CreateOk ==
    /\ pc = "create"
    /\ thread' = Append(thread, Comment(maxId(thread) + 1, commentBody(content)))
    /\ calls' = Append(calls, Call("create", 0, commentBody(content), TRUE))
    /\ pc' = "done"
    /\ UNCHANGED <<run, loadVars, idx, diffVars, onlyUpdate, content,
                   commentList, previousComment, failed, resolver>>

\* A slip in afterPublishError: the error is thrown again.
rethrown(message) == message

\* What the catch of a create or update error leaves in failed
\* (emitErrorNoPermission only logs).
afterPublishError(message) == failed

\* Lines 81-83: createComment throws and the error is logged.
CreateFails ==
    /\ pc = "create"
    /\ calls' = Append(calls, Call("create", 0, commentBody(content), FALSE))
    /\ pc' = "done"
    /\ failed' = afterPublishError("create error")
    /\ UNCHANGED <<run, loadVars, idx, diffVars, onlyUpdate, content,
                   commentList, previousComment, thread, resolver>>

\* Lines 85-91: updateComment succeeds on the comment found.
UpdateOk ==
    /\ pc = "update"
    /\ thread' = [i \in 1..Len(thread) |->
                    IF thread[i].id = previousComment
                    THEN Comment(thread[i].id, commentBody(content))
                    ELSE thread[i]]
    /\ calls' = Append(calls, Call("update", previousComment, commentBody(content), TRUE))
    /\ pc' = "done"
    /\ UNCHANGED <<run, loadVars, idx, diffVars, onlyUpdate, content,
                   commentList, previousComment, failed, resolver>>

\* Lines 92-94: updateComment throws and the error is logged.
UpdateFails ==
    /\ pc = "update"
    /\ calls' = Append(calls, Call("update", previousComment, commentBody(content), FALSE))
    /\ pc' = "done"
    /\ failed' = afterPublishError("update error")
    /\ UNCHANGED <<run, loadVars, idx, diffVars, onlyUpdate, content,
                   commentList, previousComment, thread, resolver>>

\* ------------------------------------------------------------ specification

RunSteps ==
    \/ BeginArtifact
    \/ Settle
    \/ MeasureFails
    \/ FinalizeRow
    \/ ListComments
    \/ ListFails
    \/ CreateOk
    \/ CreateFails
    \/ UpdateOk
    \/ UpdateFails

\* One run of the action on any thread.
Next ==
    \/ LoadManifests(NewManifestFiles, OldManifestFiles)
    \/ RunSteps

Spec == Init /\ [][Next]_vars

\* ------------------------------------------------- runs one after another

reportCount(commentSeq) ==
    Cardinality({i \in 1..Len(commentSeq) : isReport(commentSeq[i])})

\* Manifests of one plain artifact, for the specifications about the thread.
SmallNewFiles ==
    {AbsentManifest, JsonFile(<<>>), JsonFile(<<Entry("a.js", <<"x">>)>>)}
SmallOldFiles ==
    {AbsentManifest, JsonFile(<<Entry("a.js", <<"x">>)>>)}

\* The workflow starts the action again on the same thread.
NextRun ==
    /\ pc \in {"done", "failed"}
    /\ run < MaxRuns
    /\ run' = run + 1
    /\ pc' = "start"
    /\ manifestFiles' = NoManifestFiles
    /\ oldAssets' = EMPTY_OBJECT
    /\ newAssets' = FALSE_VALUE
    /\ idx' = 1
    /\ added' = <<>>
    /\ removed' = <<>>
    /\ sizesPromises' = <<>>
    /\ settleOrder' = <<>>
    /\ reportContent' = ""
    /\ processed' = <<>>
    /\ onlyUpdate' = FALSE
    /\ content' = ""
    /\ commentList' = <<>>
    /\ previousComment' = 0
    /\ calls' = <<>>
    /\ failed' = ""
    /\ UNCHANGED <<thread, resolver>>

\* One run on any thread of at most MaxComments comments.
InitPublish == InitOn(ThreadsUpTo(MaxComments))

NextPublish ==
    \/ LoadManifests(SmallNewFiles, SmallOldFiles)
    \/ RunSteps

SpecPublish == InitPublish /\ [][NextPublish]_vars

\* Up to MaxRuns runs on a thread that holds at most one report at first.
InitRuns == InitOn({t \in ThreadsUpTo(MaxComments) : reportCount(t) <= 1})

NextRuns ==
    \/ LoadManifests(SmallNewFiles, SmallOldFiles)
    \/ RunSteps
    \/ NextRun

SpecRuns == InitRuns /\ [][NextRuns]_vars

\* ------------------------------------------- determineAssetPath on its own

AssetNames == {"a.js", "b-style.js", "-style.js", "c-style.css",
               "d-style.js.map", "e-style_js"}

ResolverPaths(folder, asset) ==
    {pathJoin(folder, asset), replaceStyleSuffix(pathJoin(folder, asset))}

\* Every call of determineAssetPath on the names above, over every state of
\* the script and of the file the suffix replacement names.
InitPath ==
    /\ InitRun
    /\ run = 1
    /\ thread = <<>>
    /\ \E folder \in {oldAssetsFolder, newAssetsFolder}, asset \in AssetNames :
        \E fs \in [ResolverPaths(folder, asset) -> FileStates] :
            resolver = [state |-> "called", fs |-> fs, assetsFolder |-> folder,
                        jsAsset |-> asset, assetPath |-> ""]

ResolveAssetPath ==
    /\ resolver.state = "called"
    /\ resolver' = [resolver EXCEPT
            !.state = "returned",
            !.assetPath = determineAssetPath(resolver.fs, resolver.assetsFolder,
                                             resolver.jsAsset)]
    /\ UNCHANGED <<pc, run, loadVars, idx, diffVars, publishVars, failed>>

NextPath == ResolveAssetPath

SpecPath == InitPath /\ [][NextPath]_vars

\* ------------------------------------------------------------- properties

\* Whether sub occurs in s.
contains(s, sub) ==
    \E i \in 1..(Len(s) - Len(sub) + 1) : SubSeq(s, i, i + Len(sub) - 1) = sub

\* The listing of this run succeeded.
Listed == calls # <<>> /\ calls[1].op = "list" /\ calls[1].ok

\* The create and update calls of this run.
PublishCalls == IF calls = <<>> THEN <<>> ELSE Tail(calls)

HasReport(comments) ==
    \E i \in 1..Len(comments) : startsWith(comments[i].body, HEADING)

\* The id of the first comment, in listing order, whose body starts with
\* the heading.
FirstReportId(comments) ==
    LET firsts == {i \in 1..Len(comments) :
                     /\ startsWith(comments[i].body, HEADING)
                     /\ \A j \in 1..Len(comments) :
                          startsWith(comments[j].body, HEADING) => i <= j}
    IN comments[CHOOSE i \in firsts : TRUE].id

\* The inclusion test of the report, on what was measured and compared.
Qualifies(e) ==
    \/ e.newSize # e.oldSize
    \/ e.added # <<>>
    \/ e.removed # <<>>

NoRowQualifies == \A i \in 1..Len(processed) : ~Qualifies(processed[i])

\* The report names the artifact in a row.
NamedInReport(asset) == contains(reportContent, "| " \o TICK \o asset \o TICK \o " |")

InManifest(assets, asset) ==
    \E j \in 1..Len(assets.entries) : assets.entries[j].name = asset

Published == pc \in {"create", "update", "done"} /\ Listed

\* C1: one call of postOrEditComment whose listing succeeded ends in exactly
\* one of three outcomes, decided by whether a comment starting with the
\* heading was listed and by onlyUpdate: one update of the first such comment
\* and no create; one create and no update; or no call at all.  Every call
\* carries the heading followed by the content.
C1_PublishOutcome ==
    /\ (pc = "create" /\ Listed) =>
            ~HasReport(commentList) /\ ~onlyUpdate /\ PublishCalls = <<>>
    /\ (pc = "update" /\ Listed) =>
            HasReport(commentList) /\ PublishCalls = <<>>
    /\ (pc = "done" /\ Listed) =>
        IF HasReport(commentList)
        THEN /\ Len(PublishCalls) = 1
             /\ PublishCalls[1].op = "update"
             /\ PublishCalls[1].id = FirstReportId(commentList)
             /\ PublishCalls[1].body = HEADING \o content
        ELSE IF ~onlyUpdate
        THEN /\ Len(PublishCalls) = 1
             /\ PublishCalls[1].op = "create"
             /\ PublishCalls[1].body = HEADING \o content
        ELSE PublishCalls = <<>>

\* Two reports were listed and the update went to the first one.
C1_Witness ==
    /\ pc = "done"
    /\ Listed
    /\ Len(commentList) = 2
    /\ startsWith(commentList[1].body, HEADING)
    /\ startsWith(commentList[2].body, HEADING)
    /\ Len(PublishCalls) = 1
    /\ PublishCalls[1].op = "update"
    /\ PublishCalls[1].id = commentList[1].id

\* C2: the flag handed to the publisher is true exactly when no artifact
\* qualifies for a row; such a run makes no create call, makes no create or
\* update call when no report was listed, and otherwise makes one update whose
\* body carries the placeholder and no table.
C2_NoChangesRun ==
    /\ Published => (onlyUpdate <=> NoRowQualifies)
    /\ (Published /\ NoRowQualifies) =>
        /\ pc # "create"
        /\ \A i \in 1..Len(calls) : calls[i].op # "create"
        /\ ~HasReport(commentList) => (pc = "done" /\ PublishCalls = <<>>)
        /\ (HasReport(commentList) /\ pc = "done") =>
            /\ Len(PublishCalls) = 1
            /\ PublishCalls[1].op = "update"
            /\ contains(PublishCalls[1].body, NO_CHANGES)
            /\ ~contains(PublishCalls[1].body, TABLE_HEAD)

\* An artifact was measured on both sides, nothing changed, and the report
\* that was on the thread has been overwritten with the placeholder.
C2_Witness ==
    /\ pc = "done"
    /\ Listed
    /\ Len(processed) > 0
    /\ processed[1].oldMeasured = 1
    /\ NoRowQualifies
    /\ HasReport(commentList)
    /\ Len(PublishCalls) = 1
    /\ PublishCalls[1].ok
    /\ contains(thread[1].body, NO_CHANGES)

\* C3: on a thread that held at most one report before the first run, after
\* any runs one after another the thread holds at most one report, and every
\* body sent in a create or update call starts with the heading.
C3_OneReport ==
    /\ reportCount(thread) <= 1
    /\ \A i \in 1..Len(calls) :
            calls[i].op \in {"create", "update"} => startsWith(calls[i].body, HEADING)

\* A second run has updated the one report of a thread of two comments.
C3_Witness ==
    /\ run = 2
    /\ pc = "done"
    /\ Len(thread) = 2
    /\ reportCount(thread) = 1
    /\ Len(PublishCalls) = 1
    /\ PublishCalls[1].op = "update"
    /\ PublishCalls[1].ok
    /\ contains(PublishCalls[1].body, TABLE_HEAD)

\* C4: a create or update call that throws leaves the run not failed and the
\* thread as it was listed; a listing that throws fails the run with the
\* error's message and no create or update call is made.
C4_PublishErrors ==
    /\ \A i \in 1..Len(calls) :
        (calls[i].op \in {"create", "update"} /\ ~calls[i].ok) =>
            /\ pc = "done"
            /\ failed = ""
            /\ thread = commentList
    /\ \A i \in 1..Len(calls) :
        (calls[i].op = "list" /\ ~calls[i].ok) =>
            /\ pc = "failed"
            /\ failed = "list error"
            /\ Len(calls) = 1

\* The update of a listed report threw and the run ended without failing.
C4_Witness ==
    /\ pc = "done"
    /\ failed = ""
    /\ HasReport(commentList)
    /\ Len(PublishCalls) = 1
    /\ PublishCalls[1].op = "update"
    /\ ~PublishCalls[1].ok
    /\ ~NoRowQualifies

\* The listing of a thread that holds a report threw and the run failed.
C4_ListWitness ==
    /\ pc = "failed"
    /\ failed = "list error"
    /\ reportCount(thread) = 1

\* C5: when the new manifest cannot be read or parsed the run ends without
\* failing, measures nothing and calls the backend for nothing; when only
\* the old manifest cannot be read or parsed the run goes on with an empty old
\* manifest (no old size is measured, the run ends in the publisher) and is
\* marked failed by nothing but an error of the measurer or of the listing.
C5_UnreadableManifests ==
    /\ (pc # "start" /\ ~manifestFiles.new) =>
        /\ pc = "done"
        /\ failed = ""
        /\ calls = <<>>
        /\ processed = <<>>
        /\ sizesPromises = <<>>
    /\ (pc # "start" /\ manifestFiles.new /\ ~manifestFiles.old) =>
        /\ oldAssets = EMPTY_OBJECT
        /\ \A i \in 1..Len(processed) :
                processed[i].oldSize = 0 /\ processed[i].oldMeasured = 0
        /\ pc = "done" => Listed
        /\ failed # "" => (pc = "failed" /\ failed \in {"size-limit error", "list error"})

\* The new manifest was unreadable, a report is on the thread, the run is over.
C5_Witness ==
    /\ pc = "done"
    /\ ~manifestFiles.new
    /\ reportCount(thread) = 1
    /\ calls = <<>>

\* Only the old manifest was unreadable and the run published a report.
C5_OldWitness ==
    /\ pc = "done"
    /\ manifestFiles.new
    /\ ~manifestFiles.old
    /\ Len(processed) = 2
    /\ Len(PublishCalls) = 1
    /\ PublishCalls[1].ok

\* C6: an artifact of the new manifest is named in a row of the report if and
\* only if its sizes differ or its added or its removed dependencies are not
\* empty; the artifacts processed are those of the new manifest, in its
\* order, and no artifact of the old manifest alone is named in a row.
C6_RowInclusion ==
    pc # "failed" =>
        /\ Len(processed) <= Len(newAssets.entries)
        /\ \A i \in 1..Len(processed) :
            /\ processed[i].asset = newAssets.entries[i].name
            /\ NamedInReport(processed[i].asset) <=> Qualifies(processed[i])
        /\ \A j \in 1..Len(oldAssets.entries) :
            ~InManifest(newAssets, oldAssets.entries[j].name) =>
                ~NamedInReport(oldAssets.entries[j].name)

\* The new manifest holds one artifact, whose size alone changed and which
\* has its row; the old manifest holds another artifact as well.
C6_Witness ==
    /\ LoopDone
    /\ Len(newAssets.entries) = 1
    /\ Len(oldAssets.entries) = 2
    /\ Len(processed) = 1
    /\ processed[1].added = <<>>
    /\ processed[1].removed = <<>>
    /\ processed[1].newSize # processed[1].oldSize
    /\ NamedInReport(processed[1].asset)

\* An artifact whose dependencies alone changed has its row, and one with
\* nothing changed has none.
C6_DepsWitness ==
    /\ LoopDone
    /\ Len(processed) = 2
    /\ processed[1].newSize = processed[1].oldSize
    /\ processed[1].removed # <<>>
    /\ NamedInReport(processed[1].asset)
    /\ ~Qualifies(processed[2])
    /\ ~NamedInReport(processed[2].asset)

\* C7: when the old and the new size of an artifact are the same size S, 0
\* included, the size diff shows a byte delta of 0 and a percentage that ends
\* in a bare % with no up or down marker, and the artifact has no row when its
\* dependencies match too.
C7_EqualSizes ==
    \A i \in 1..Len(processed) :
        processed[i].newSize = processed[i].oldSize =>
            /\ startsWith(processed[i].sizeDiff, " 0 B ( ")
            /\ endsWith(processed[i].sizeDiff, "% )")
            /\ ~contains(processed[i].sizeDiff, UP)
            /\ ~contains(processed[i].sizeDiff, DOWN)
            /\ (processed[i].added = <<>> /\ processed[i].removed = <<>>) =>
                    ~NamedInReport(processed[i].asset)

\* The same for the sizes S > 0 alone.
C7_EqualNonZeroSizes ==
    \A i \in 1..Len(processed) :
        (processed[i].newSize = processed[i].oldSize /\ processed[i].oldSize > 0) =>
            /\ processed[i].sizeDiff = " 0 B ( 0% )"
            /\ (processed[i].added = <<>> /\ processed[i].removed = <<>>) =>
                    ~NamedInReport(processed[i].asset)

\* C8: an artifact without an entry in the old manifest has the old size 0,
\* all its dependencies as added, none as removed and no measurement on the
\* old side; an artifact with an entry has one measurement on the old side,
\* of a file of the old folder.
C8_FirstSeenArtifacts ==
    /\ pc # "failed" =>
        \A i \in 1..Len(processed) :
            IF InManifest(oldAssets, processed[i].asset)
            THEN processed[i].oldMeasured = 1
            ELSE /\ processed[i].oldSize = 0
                 /\ processed[i].added = newAssets.entries[i].dependencies
                 /\ processed[i].removed = <<>>
                 /\ processed[i].oldMeasured = 0
    /\ pc = "measuring" =>
        IF InManifest(oldAssets, newAssets.entries[idx].name)
        THEN /\ sizesPromises[2].kind = "sizeLimit"
             /\ startsWith(sizesPromises[2].files, oldAssetsFolder \o "/")
        ELSE /\ sizesPromises[2] = resolvedPromise
             /\ sizesPromises[1].kind = "sizeLimit"
             /\ startsWith(sizesPromises[1].files, newAssetsFolder \o "/")

\* One artifact is new, with a dependency, and one was in the old manifest.
C8_Witness ==
    /\ LoopDone
    /\ Len(processed) = 2
    /\ ~InManifest(oldAssets, processed[1].asset)
    /\ processed[1].added # <<>>
    /\ processed[1].oldMeasured = 0
    /\ InManifest(oldAssets, processed[2].asset)
    /\ processed[2].oldMeasured = 1

\* C9: determineAssetPath returns the stylesheet path, the name with its
\* -style.js ending replaced by -style.css, if and only if the name ends with
\* -style.js, the script is empty or absent, and the stylesheet exists and is
\* not empty; in every other case it returns folder/name.
C9_AssetPath ==
    resolver.state = "returned" =>
        LET name == resolver.jsAsset
            jsPath == resolver.assetsFolder \o "/" \o name
            cssPath == resolver.assetsFolder \o "/"
                        \o SubSeq(name, 1, Len(name) - 9) \o "-style.css"
            script == resolver.fs[jsPath]
            fallsBack ==
                /\ endsWith(name, "-style.js")
                /\ (~script.exists \/ script.length = 0)
                /\ resolver.fs[cssPath].exists
                /\ resolver.fs[cssPath].length > 0
        IN IF fallsBack
           THEN resolver.assetPath = cssPath /\ cssPath # jsPath
           ELSE resolver.assetPath = jsPath

\* The script of a style artifact does not exist, its stylesheet is not
\* empty, and the stylesheet's path was returned.
C9_Witness ==
    /\ resolver.state = "returned"
    /\ resolver.jsAsset = "b-style.js"
    /\ ~resolver.fs[resolver.assetsFolder \o "/b-style.js"].exists
    /\ resolver.fs[resolver.assetsFolder \o "/b-style.css"].length > 0
    /\ resolver.assetPath = resolver.assetsFolder \o "/b-style.css"

\* The rows of the artifacts processed, in order.
RECURSIVE RowsOf(_)
RowsOf(entries) ==
    IF entries = <<>> THEN ""
    ELSE rowFor(entries[1].asset, entries[1].added, entries[1].removed,
                entries[1].newSize, entries[1].oldSize)
            \o RowsOf(Tail(entries))

\* C10: a row is finalized with both promises of its artifact settled; the
\* sizes used are those of the new and of the old side whatever the order in
\* which the two settled, so the report is the rows of the artifacts in the
\* order of the new manifest; and the backend is called only once every
\* artifact of the new manifest has been processed, with one listing and at
\* most one create or update.
C10_MeasureThenPublish ==
    /\ \A i \in 1..Len(processed) : processed[i].settled = 2
    /\ (pc = "measuring" /\ allSettled(sizesPromises)) =>
            allResults(sizesPromises, settleOrder)
                = <<sizesPromises[1].size, sizesPromises[2].size>>
    /\ pc # "failed" =>
        /\ reportContent = RowsOf(processed)
        /\ \A i \in 1..Len(processed) : processed[i].asset = newAssets.entries[i].name
    /\ pc \in {"create", "update"} \/ (pc = "done" /\ calls # <<>>) =>
        /\ Len(processed) = Len(newAssets.entries)
        /\ calls[1].op = "list"
        /\ Len(calls) <= 2
        /\ \A i \in 2..Len(calls) : calls[i].op \in {"create", "update"}
    /\ pc \in {"start", "loop", "measuring"} => calls = <<>>

\* Two artifacts have their rows, in the order of the manifest; the old size
\* of the second came in before its new size, and the two sizes differ.
C10_Witness ==
    /\ LoopDone
    /\ Len(processed) = 2
    /\ settleOrder = <<2, 1>>
    /\ processed[2].newSize # processed[2].oldSize
    /\ Qualifies(processed[1])
    /\ reportContent = processed[1].row \o processed[2].row
    /\ processed[1].row # ""

\* The report of two artifacts has been created on the thread.
C10_PublishWitness ==
    /\ pc = "done"
    /\ Len(processed) = 2
    /\ Len(PublishCalls) = 1
    /\ PublishCalls[1].op = "create"
    /\ PublishCalls[1].ok
    /\ contains(PublishCalls[1].body, processed[1].row \o processed[2].row)
    /\ processed[1].row # ""
    /\ processed[2].row # ""

====
